---- MODULE Spec2Model ----
(***************************************************************************)
(* A model of create-m10n (src/index.ts): the entry point main, the        *)
(* prerequisite checker, the createProject pipeline, the .env parser       *)
(* readEnvFile and the package.json patch.                                 *)
(*                                                                         *)
(* Strings are sequences of one-character strings, so that trim, indexOf,  *)
(* slice, split and the project-name regular expression are computed       *)
(* character by character as the JavaScript built-ins compute them.        *)
(***************************************************************************)
EXTENDS Integers, Sequences, FiniteSets, TLC

VARIABLES
    pc,            \* position of the process in main / createProject
    skipChecks,    \* main: the local skipChecks
    showHelp,      \* main: the local showHelp
    projectName,   \* main: the local projectName (found: it is not undefined)
    dirExisted,    \* createProject: what existsSync(projectPath) returned
    allGood,       \* checkAllPrerequisites: the local allGood
    checks,        \* the result of every prerequisite check run so far, in order
    inProject,     \* process.chdir(projectPath) has happened
    written,       \* the files this tool has written
    calls,         \* every external command issued so far, in order
    out,           \* every message class printed so far, in order
    exited,        \* the process has ended
    exitCode,      \* its exit status (meaningful when exited)
    convexUrl,     \* createProject: the local convexUrl
    deployKey,     \* createProject: the local deployKey
    vercelLinked,  \* createProject: the local vercelLinked
    envIdx,        \* addVercelEnvVar: index of the next environment to push
    pkg,           \* package.json as structured data
    pkgText,       \* package.json as last written by this tool
    content,       \* readEnvFile: the text of the file being parsed
    readable,      \* readEnvFile: can the file be read
    env            \* readEnvFile: the map it returns

vars == <<pc, skipChecks, showHelp, projectName, dirExisted, allGood, checks, inProject, written, calls,
          out, exited, exitCode, convexUrl, deployKey, vercelLinked, envIdx,
          pkg, pkgText, content, readable, env>>

(***************************************************************************)
(* Bounds of the model.                                                    *)
(***************************************************************************)
MaxContentLen == 7
MaxNameLen == 2
MaxArgs == 2
MaxScripts == 2

(***************************************************************************)
(* JavaScript string built-ins.                                            *)
(***************************************************************************)
Range(s) == {s[i] : i \in DOMAIN s}

Strings(alphabet, n) == UNION {[1..k -> alphabet] : k \in 0..n}

\* The characters String.prototype.trim removes (those the model can hold).
WhiteSpace == {" ", "\t", "\r"}

RECURSIVE TrimStart(_)
TrimStart(s) ==
    IF s # <<>> /\ Head(s) \in WhiteSpace THEN TrimStart(Tail(s)) ELSE s

RECURSIVE TrimEnd(_)
TrimEnd(s) ==
    IF s # <<>> /\ s[Len(s)] \in WhiteSpace
    THEN TrimEnd(SubSeq(s, 1, Len(s) - 1))
    ELSE s

Trim(s) == TrimEnd(TrimStart(s))

\* s.indexOf(ch), 1-based; 0 stands for JavaScript's -1.
IndexOf(s, ch) ==
    IF \E i \in DOMAIN s : s[i] = ch
    THEN CHOOSE i \in DOMAIN s : s[i] = ch /\ \A j \in 1..(i - 1) : s[j] # ch
    ELSE 0

StartsWith(s, ch) == Len(s) >= 1 /\ s[1] = ch

EndsWith(s, ch) == Len(s) >= 1 /\ s[Len(s)] = ch

\* s.slice(1, -1)
SliceInner(s) == SubSeq(s, 2, Len(s) - 1)

\* s.split(sep): always at least one piece.
RECURSIVE Split(_, _)
Split(s, sep) ==
    LET i == IndexOf(s, sep)
    IN  IF i = 0
        THEN <<s>>
        ELSE <<SubSeq(s, 1, i - 1)>> \o Split(SubSeq(s, i + 1, Len(s)), sep)

(***************************************************************************)
(* readEnvFile (src/index.ts 52-78).                                       *)
(***************************************************************************)
EmptyEnv == [k \in {} |-> <<>>]

EnvSet(e, key, value) ==
    [k \in DOMAIN e \cup {key} |-> IF k = key THEN value ELSE e[k]]

\* "Remove quotes if present", lines 64-69.
StripQuotes(value) ==
    IF \/ (StartsWith(value, "\"") /\ EndsWith(value, "\""))
       \/ (StartsWith(value, "'") /\ EndsWith(value, "'"))
    THEN SliceInner(value)
    ELSE value

\* The body of the for loop, lines 57-72, for one line.
ParseLine(e, line) ==
    LET trimmed == Trim(line)
        eqIndex == IndexOf(trimmed, "=")
    IN  IF trimmed # <<>> /\ ~StartsWith(trimmed, "#")
        THEN IF eqIndex # 0
             THEN EnvSet(e,
                         Trim(SubSeq(trimmed, 1, eqIndex - 1)),
                         StripQuotes(Trim(SubSeq(trimmed, eqIndex + 1,
                                                 Len(trimmed)))))
             ELSE e
        ELSE e

RECURSIVE ParseLines(_, _)
ParseLines(e, lines) ==
    IF lines = <<>> THEN e
    ELSE ParseLines(ParseLine(e, Head(lines)), Tail(lines))

\* The whole function: the catch returns the map built so far, which is
\* empty because the read is the first statement of the try block.
ReadEnvFileOf(canRead, text) ==
    IF canRead THEN ParseLines(EmptyEnv, Split(text, "\n")) ELSE EmptyEnv

(***************************************************************************)
(* The package.json patch (src/index.ts 296-301).  A manifest is its       *)
(* top-level keys in file order, the values of the keys other than         *)
(* "scripts", and the scripts object as an ordered list of entries (a      *)
(* JavaScript object keeps insertion order, and JSON.stringify follows it).*)
(***************************************************************************)
DEV_SCRIPT == "bunx convex dev --once && concurrently -r bun:dev:web bun:dev:convex"
DEV_CONVEX_SCRIPT == "bunx convex dev"
START_SCRIPT == "bun .output/server/index.mjs"

HasScripts(m) == "scripts" \in Range(m.keys)

ScriptKeys(scripts) == {scripts[i].k : i \in DOMAIN scripts}

ScriptValue(scripts, key) ==
    scripts[CHOOSE i \in DOMAIN scripts : scripts[i].k = key].v

\* pkg.scripts[key] = value: an existing key keeps its place, a new key is
\* added last.
SetScript(scripts, key, value) ==
    IF key \in ScriptKeys(scripts)
    THEN [i \in DOMAIN scripts |->
            IF scripts[i].k = key THEN [k |-> key, v |-> value] ELSE scripts[i]]
    ELSE Append(scripts, [k |-> key, v |-> value])

\* PatchScripts assigning a fresh scripts object instead of three entries.
PatchScriptsReplacingSection(m) ==
    [m EXCEPT !.scripts = <<[k |-> "dev", v |-> DEV_SCRIPT],
                            [k |-> "dev:convex", v |-> DEV_CONVEX_SCRIPT],
                            [k |-> "start", v |-> START_SCRIPT]>>]

\* Lines 297-300: the three assignments.
PatchScripts(m) ==
    [m EXCEPT !.scripts =
        SetScript(SetScript(SetScript(@, "dev", DEV_SCRIPT),
                            "dev:convex", DEV_CONVEX_SCRIPT),
                  "start", START_SCRIPT)]

\* JSON.stringify(value, null, 2) as a sequence of text tokens; a key or a
\* string value is one token between two quote tokens.
RECURSIVE JoinTokens(_, _)
JoinTokens(parts, sep) ==
    IF parts = <<>> THEN <<>>
    ELSE IF Len(parts) = 1 THEN Head(parts)
    ELSE Head(parts) \o sep \o JoinTokens(Tail(parts), sep)

JsonString(s) == <<"\"", s, "\"">>

JsonObject(members, indent, closeIndent) ==
    IF members = <<>> THEN <<"{}">>
    ELSE <<"{", "\n">>
         \o JoinTokens([i \in DOMAIN members |-> indent \o members[i]],
                       <<",", "\n">>)
         \o <<"\n">> \o closeIndent \o <<"}">>

JsonScripts(scripts) ==
    JsonObject([i \in DOMAIN scripts |->
                  JsonString(scripts[i].k) \o <<":", " ">>
                  \o JsonString(scripts[i].v)],
               <<"  ", "  ">>, <<"  ">>)

JSONStringify(m) ==
    JsonObject([i \in DOMAIN m.keys |->
                  JsonString(m.keys[i]) \o <<":", " ">>
                  \o (IF m.keys[i] = "scripts"
                      THEN JsonScripts(m.scripts)
                      ELSE JsonString(m.vals[m.keys[i]]))],
               <<"  ">>, <<>>)

\* Line 301: the text handed to Bun.write.
ManifestText(m) == JSONStringify(m) \o <<"\n">>

(***************************************************************************)
(* main: the argument list (src/index.ts 464-498).                         *)
(***************************************************************************)
SKIP_LONG == <<"-", "-", "s", "k", "i", "p", "-", "c", "h", "e", "c", "k", "s">>
SKIP_SHORT == <<"-", "s">>
HELP_LONG == <<"-", "-", "h", "e", "l", "p">>
HELP_SHORT == <<"-", "h">>

Letters ==
    {"a", "b", "c", "d", "e", "f", "g", "h", "i", "j", "k", "l", "m",
     "n", "o", "p", "q", "r", "s", "t", "u", "v", "w", "x", "y", "z",
     "A", "B", "C", "D", "E", "F", "G", "H", "I", "J", "K", "L", "M",
     "N", "O", "P", "Q", "R", "S", "T", "U", "V", "W", "X", "Y", "Z"}

Digits == {"0", "1", "2", "3", "4", "5", "6", "7", "8", "9"}

Includes(list, x) == x \in Range(list)

\* Line 466.
SkipChecks(a) == Includes(a, SKIP_LONG) \/ Includes(a, SKIP_SHORT)

\* Line 467.
ShowHelp(a) == Includes(a, HELP_LONG) \/ Includes(a, HELP_SHORT)

\* Line 468: args.find(arg => !arg.startsWith("-")); found is FALSE for
\* JavaScript's undefined.
IsCandidate(arg) == ~StartsWith(arg, "-")

FindName(a) ==
    IF \E i \in DOMAIN a : IsCandidate(a[i])
    THEN [found |-> TRUE,
          name |-> a[CHOOSE i \in DOMAIN a :
                        /\ IsCandidate(a[i])
                        /\ \A j \in 1..(i - 1) : ~IsCandidate(a[j])]]
    ELSE [found |-> FALSE, name |-> <<>>]

\* The truthiness of projectName (lines 470 and 488): undefined and the
\* empty string are both falsy.
Truthy(n) == n.found /\ n.name # <<>>

\* ValidName with the first character held to the class of the others.
ValidNameAnyFirst(name) ==
    /\ Len(name) >= 1
    /\ \A i \in 1..Len(name) : name[i] \in Letters \cup Digits \cup {"_", "-"}

\* Line 491: /^[a-zA-Z][a-zA-Z0-9_-]*$/.test(projectName)
ValidName(name) ==
    /\ Len(name) >= 1
    /\ name[1] \in Letters
    /\ \A i \in 2..Len(name) : name[i] \in Letters \cup Digits \cup {"_", "-"}

\* The argument lists of the model: names over a small alphabet, the flags.
NameAlphabet == {"a", "7", "-", "_", "/"}

ArgTokens ==
    Strings(NameAlphabet, MaxNameLen)
        \cup {SKIP_LONG, SKIP_SHORT, HELP_LONG, HELP_SHORT}

\* The argument lists with n arguments.
ArgLists(n) == [1..n -> ArgTokens]

(***************************************************************************)
(* The process: exit, an uncaught error, the external calls.               *)
(***************************************************************************)
Call(cmd, a1, a2, ok) == [cmd |-> cmd, a1 |-> a1, a2 |-> a2, ok |-> ok]

\* process.exit(code) after printing msgs.
Exit(code, msgs) ==
    /\ exited' = TRUE
    /\ exitCode' = code
    /\ pc' = "exit"
    /\ out' = out \o msgs

\* A rejected await that no try block of createProject encloses: the
\* promise of main rejects and main().catch (lines 511-514) exits with 1.
Throw == Exit(1, <<"error:An error occurred">>)

MainLocals == <<skipChecks, showHelp, projectName>>

(***************************************************************************)
(* main (lines 464-509), up to its first await.                            *)
(***************************************************************************)
\* Where main goes once the name is accepted (lines 503-508).
AfterMain(skip) == IF skip THEN "createProject" ELSE "checkBun"

\* The exit status of the help branch (line 488).
HelpStatus(n) == IF Truthy(n) THEN 0 ELSE 1

Main ==
    /\ pc = "main"
    /\ \E n \in 0..MaxArgs : \E a \in ArgLists(n) :
        /\ skipChecks' = SkipChecks(a)
        /\ showHelp' = ShowHelp(a)
        /\ projectName' = FindName(a)
    /\ IF showHelp' \/ ~Truthy(projectName')
       THEN Exit(HelpStatus(projectName'), <<"help">>)
       ELSE IF ~ValidName(projectName'.name)
       THEN Exit(1, <<"error:Invalid project name">>)
       ELSE /\ pc' = AfterMain(skipChecks')
            /\ out' = out \o <<"header:Bootstrap">>
            /\ UNCHANGED <<exited, exitCode>>
    /\ UNCHANGED <<dirExisted, allGood, checks, inProject, written,
                   calls, convexUrl, deployKey, vercelLinked, envIdx, pkg,
                   pkgText, content, readable, env>>

(***************************************************************************)
(* The prerequisite checker (lines 109-223).  Each check catches every     *)
(* failure of the probes it makes and returns ok: false.                   *)
(***************************************************************************)
\* Lines 109-116.
CheckBun(versionOk) == versionOk

\* Lines 118-126: gh auth status, then gh api user.
CheckGitHub(authOk, userOk) == authOk /\ userOk

\* Lines 128-146: the file exists, parses as JSON, has a truthy accessToken.
CheckConvex(cfgExists, cfgParses, hasToken) == cfgExists /\ cfgParses /\ hasToken

\* Lines 148-159: vercel whoami if the binary is installed, bunx vercel
\* whoami otherwise; no second try after a failure.
CheckVercel(hasBinary, globalOk, bunxOk) == IF hasBinary THEN globalOk ELSE bunxOk

\* The if/else after each check (lines 169-177, 182-188, 193-199, 204-210).
AllGoodAfter(good, ok) == IF ok THEN good ELSE FALSE

\* AfterCheck returning at the first failed check.
AfterCheckStoppingAtFailure(label, ok) ==
    IF ~ok THEN "checksReturn"
    ELSE CASE label = "checkBun" -> "checkGitHub"
           [] label = "checkGitHub" -> "checkConvex"
           [] label = "checkConvex" -> "checkVercel"
           [] label = "checkVercel" -> "checksReturn"

\* What checkAllPrerequisites runs after the check at label: the next
\* check, whatever the result.
AfterCheck(label, ok) ==
    CASE label = "checkBun" -> "checkGitHub"
      [] label = "checkGitHub" -> "checkConvex"
      [] label = "checkConvex" -> "checkVercel"
      [] label = "checkVercel" -> "checksReturn"

CheckStep(label, name, ok) ==
    /\ pc = label
    /\ checks' = Append(checks, [name |-> name, ok |-> ok])
    /\ allGood' = AllGoodAfter(allGood, ok)
    /\ out' = out \o <<"info:Checking " \o name,
                       (IF ok THEN "success:" ELSE "error:") \o name>>
    /\ pc' = AfterCheck(label, ok)
    /\ UNCHANGED <<MainLocals, dirExisted, inProject, written, calls, exited,
                   exitCode, convexUrl, deployKey, vercelLinked, envIdx, pkg,
                   pkgText, content, readable, env>>

CheckBunStep ==
    \E versionOk \in BOOLEAN : CheckStep("checkBun", "bun", CheckBun(versionOk))

CheckGitHubStep ==
    \E authOk, userOk \in BOOLEAN :
        CheckStep("checkGitHub", "gh", CheckGitHub(authOk, userOk))

CheckConvexStep ==
    \E cfgExists, cfgParses, hasToken \in BOOLEAN :
        CheckStep("checkConvex", "convex",
                  CheckConvex(cfgExists, cfgParses, hasToken))

CheckVercelStep ==
    \E hasBinary, globalOk, bunxOk \in BOOLEAN :
        CheckStep("checkVercel", "vercel",
                  CheckVercel(hasBinary, globalOk, bunxOk))

\* ChecksReturn with the caller not testing the result (line 505 left out).
ChecksReturnIgnoringResult ==
    /\ pc = "checksReturn"
    /\ pc' = "createProject"
    /\ out' = out \o <<IF allGood THEN "success:All prerequisites satisfied"
                       ELSE "error:Some prerequisites are missing">>
    /\ UNCHANGED <<exited, exitCode>>
    /\ UNCHANGED <<MainLocals, dirExisted, allGood, checks, inProject, written,
                   calls, convexUrl, deployKey, vercelLinked, envIdx, pkg,
                   pkgText, content, readable, env>>

\* Lines 212-222 and the caller's lines 504-505.
ChecksReturn ==
    /\ pc = "checksReturn"
    /\ IF ~allGood
       THEN Exit(1, <<"error:Some prerequisites are missing">>)
       ELSE /\ pc' = "createProject"
            /\ out' = out \o <<"success:All prerequisites satisfied">>
            /\ UNCHANGED <<exited, exitCode>>
    /\ UNCHANGED <<MainLocals, dirExisted, allGood, checks, inProject, written,
                   calls, convexUrl, deployKey, vercelLinked, envIdx, pkg,
                   pkgText, content, readable, env>>

(***************************************************************************)
(* createProject (lines 259-458).                                          *)
(***************************************************************************)
CREATE_CONVEX == "bunx create-convex@latest"
BUN_ADD_NITRO == "bun add nitro"
BUN_INSTALL == "bun install"
GIT_INIT == "git init"
GIT_ADD == "git add ."
GIT_COMMIT == "git commit"
GH_REPO_CREATE == "gh repo create"
CONVEX_DEV_ONCE == "bunx convex dev --once"
VERCEL_LINK == "bunx vercel link --yes"
VERCEL_ENV_ADD == "bunx vercel env add"

\* Line 381.
EnvTargets == <<"production", "preview", "development">>

VITE_CONVEX_URL ==
    <<"V", "I", "T", "E", "_", "C", "O", "N", "V", "E", "X", "_", "U", "R", "L">>

\* InTry with the try block around gh repo create left out.
InTryWithoutGitHub(cmd) == cmd \in {CONVEX_DEV_ONCE, VERCEL_LINK, VERCEL_ENV_ADD}

\* The commands createProject awaits inside a try block (lines 321-329,
\* 335-351, 368-376, and 85-93 in addVercelEnvVar).
InTry(cmd) == cmd \in {GH_REPO_CREATE, CONVEX_DEV_ONCE, VERCEL_LINK, VERCEL_ENV_ADD}

\* The end of createProject and of the process: main returns, status 0.
Finish(msgs) ==
    /\ exited' = TRUE
    /\ exitCode' = 0
    /\ pc' = "done"
    /\ out' = out \o msgs

\* Lines 449-457.
CompletePhase == [pc |-> "done", out |-> <<"header:Setup Complete">>]

\* Lines 407-434: the deploy-key half of the variable push.
KeyPhase(key) ==
    IF key # <<>>
    THEN [pc |-> "pushKey", out |-> <<"info:Adding CONVEX_DEPLOY_KEY">>]
    ELSE [pc |-> CompletePhase.pc,
          out |-> <<"warning:No deploy key provided">> \o CompletePhase.out]

\* Lines 383-405: the URL half, then the deploy-key half.
UrlPhase(url, key) ==
    IF url # <<>>
    THEN [pc |-> "pushUrl", out |-> <<"info:Adding VITE_CONVEX_URL">>]
    ELSE [pc |-> KeyPhase(key).pc,
          out |-> <<"warning:VITE_CONVEX_URL not found">> \o KeyPhase(key).out]

\* EnvPhase without the test of vercelLinked.
EnvPhaseIgnoringLink(linked, url, key) == UrlPhase(url, key)

\* Lines 379-447: what follows the link step.
EnvPhase(linked, url, key) ==
    IF linked
    THEN UrlPhase(url, key)
    ELSE [pc |-> CompletePhase.pc,
          out |-> <<"warning:ACTION REQUIRED">> \o CompletePhase.out]

Go(msgs, phase) ==
    IF phase.pc = "done"
    THEN Finish(msgs \o phase.out)
    ELSE /\ pc' = phase.pc
         /\ out' = out \o msgs \o phase.out
         /\ UNCHANGED <<exited, exitCode>>

\* CreateProjectStart without the process.exit(1) of line 264.
CreateProjectStartWithoutExit ==
    /\ pc = "createProject"
    /\ \E exists \in BOOLEAN :
        /\ dirExisted' = exists
        /\ pc' = "generate"
        /\ out' = out \o (IF exists THEN <<"error:already exists">> ELSE <<>>)
                      \o <<"header:Creating Project from Template">>
        /\ UNCHANGED <<exited, exitCode>>
    /\ UNCHANGED <<MainLocals, allGood, checks, inProject, written,
                   calls, convexUrl, deployKey, vercelLinked, envIdx, pkg,
                   pkgText, content, readable, env>>

\* Lines 260-265.
CreateProjectStart ==
    /\ pc = "createProject"
    /\ \E exists \in BOOLEAN :
        /\ dirExisted' = exists
        /\ IF exists
           THEN Exit(1, <<"error:already exists">>)
           ELSE /\ pc' = "generate"
                /\ out' = out \o <<"header:Creating Project from Template">>
                /\ UNCHANGED <<exited, exitCode>>
    /\ UNCHANGED <<MainLocals, allGood, checks, inProject, written,
                   calls, convexUrl, deployKey, vercelLinked, envIdx, pkg,
                   pkgText, content, readable, env>>

\* One awaited command with nothing but messages around it: on failure a
\* warning when a try block encloses it, an uncaught error otherwise.
RunStep(label, cmd, next) ==
    /\ pc = label
    /\ \E ok \in BOOLEAN :
        /\ calls' = Append(calls, Call(cmd, "", "", ok))
        /\ IF ok
           THEN /\ pc' = next
                /\ out' = out \o <<"success:" \o cmd>>
                /\ UNCHANGED <<exited, exitCode>>
           ELSE IF InTry(cmd)
           THEN /\ pc' = next
                /\ out' = out \o <<"warning:" \o cmd>>
                /\ UNCHANGED <<exited, exitCode>>
           ELSE Throw

\* The package.json a template can leave behind: with a scripts object, or
\* without one (pkg.scripts.dev = ... then raises a TypeError).
TemplateManifests ==
    {[keys |-> <<"name", "scripts">>, vals |-> [k \in {"name"} |-> "app"],
      scripts |-> <<[k |-> "dev", v |-> "old"], [k |-> "build", v |-> "vite build"]>>],
     [keys |-> <<"name">>, vals |-> [k \in {"name"} |-> "app"],
      scripts |-> <<>>]}

\* Lines 267-273: the generator, then process.chdir.
Generate ==
    /\ pc = "generate"
    /\ \E ok \in BOOLEAN :
        /\ calls' = Append(calls, Call(CREATE_CONVEX, "", "", ok))
        /\ IF ok
           THEN /\ pc' = "addNitro"
                /\ out' = out \o <<"success:" \o CREATE_CONVEX>>
                /\ inProject' = TRUE
                /\ pkg' \in TemplateManifests
                /\ UNCHANGED <<exited, exitCode>>
           ELSE IF InTry(CREATE_CONVEX)
           THEN /\ pc' = "addNitro"
                /\ out' = out \o <<"warning:" \o CREATE_CONVEX>>
                /\ UNCHANGED <<exited, exitCode, inProject, pkg>>
           ELSE Throw /\ UNCHANGED <<inProject, pkg>>
    /\ UNCHANGED <<MainLocals, dirExisted, allGood, checks, written, convexUrl,
                   deployKey, vercelLinked, envIdx, pkgText, content,
                   readable, env>>

\* Lines 275-279.
AddNitro ==
    /\ RunStep("addNitro", BUN_ADD_NITRO, "configure")
    /\ UNCHANGED <<MainLocals, dirExisted, allGood, checks, inProject, written,
                   convexUrl, deployKey, vercelLinked, envIdx, pkg, pkgText,
                   content, readable, env>>

\* Lines 281-302: the two fixed files, then the package.json patch.
Configure ==
    /\ pc = "configure"
    /\ IF HasScripts(pkg)
       THEN /\ pkg' = PatchScripts(pkg)
            /\ pkgText' = ManifestText(pkg')
            /\ written' = written \cup {"vite.config.ts", "vercel.json", "package.json"}
            /\ pc' = "install"
            /\ out' = out \o <<"success:package.json updated">>
            /\ UNCHANGED <<exited, exitCode>>
       ELSE /\ written' = written \cup {"vite.config.ts", "vercel.json"}
            /\ Throw
            /\ UNCHANGED <<pkg, pkgText>>
    /\ UNCHANGED <<MainLocals, dirExisted, allGood, checks, inProject, calls,
                   convexUrl, deployKey, vercelLinked, envIdx, content,
                   readable, env>>

StepFrame ==
    UNCHANGED <<MainLocals, dirExisted, allGood, checks, inProject, written,
                convexUrl, deployKey, vercelLinked, envIdx, pkg, pkgText,
                content, readable, env>>

\* Lines 304-308.
Install == RunStep("install", BUN_INSTALL, "gitInit") /\ StepFrame

\* Lines 310-316.
GitInit == RunStep("gitInit", GIT_INIT, "gitAdd") /\ StepFrame

GitAdd == RunStep("gitAdd", GIT_ADD, "gitCommit") /\ StepFrame

GitCommit == RunStep("gitCommit", GIT_COMMIT, "github") /\ StepFrame

\* Lines 318-329.
GitHub == RunStep("github", GH_REPO_CREATE, "convex") /\ StepFrame

\* What .env.local can hold after convex dev --once: nothing readable, the
\* URL, the URL with an empty quoted value, or other keys only.
EnvLocalFiles ==
    {[readable |-> FALSE, text |-> <<>>],
     [readable |-> TRUE, text |-> VITE_CONVEX_URL \o <<"=", "u">>],
     [readable |-> TRUE,
      text |-> <<"#", "c", "\n">> \o VITE_CONVEX_URL \o <<" ", "=", " ", "\"", "u", "\"", "\n">>],
     [readable |-> TRUE, text |-> VITE_CONVEX_URL \o <<"=", "'", "'">>],
     [readable |-> TRUE, text |-> <<"A", "=", "b", "\n">>]}

\* Line 341: envVars.VITE_CONVEX_URL || ""
UrlOf(envVars) ==
    IF VITE_CONVEX_URL \in DOMAIN envVars THEN envVars[VITE_CONVEX_URL] ELSE <<>>

\* Lines 331-351.
Convex ==
    /\ pc = "convex"
    /\ \E ok \in BOOLEAN :
        /\ calls' = Append(calls, Call(CONVEX_DEV_ONCE, "", "", ok))
        /\ IF ok
           THEN \E f \in EnvLocalFiles :
                  LET url == UrlOf(ReadEnvFileOf(f.readable, f.text))
                  IN  /\ convexUrl' = url
                      /\ out' = out \o <<"success:" \o CONVEX_DEV_ONCE>>
                                \o (IF url # <<>>
                                    THEN <<"success:Found VITE_CONVEX_URL">>
                                    ELSE <<>>)
                      /\ pc' = "prompt"
                      /\ UNCHANGED <<exited, exitCode>>
           ELSE IF InTry(CONVEX_DEV_ONCE)
           THEN /\ out' = out \o <<"warning:" \o CONVEX_DEV_ONCE>>
                /\ pc' = "prompt"
                /\ UNCHANGED <<exited, exitCode, convexUrl>>
           ELSE Throw /\ UNCHANGED convexUrl
    /\ UNCHANGED <<MainLocals, dirExisted, allGood, checks, inProject, written,
                   deployKey, vercelLinked, envIdx, pkg, pkgText, content,
                   readable, env>>

\* What the operator can type at the prompt: nothing, blanks, a key.
Answers == {<<>>, <<" ">>, <<" ", "k">>}

\* Lines 353-362, with prompt (lines 39-50): the answer is trimmed.
Prompt ==
    /\ pc = "prompt"
    /\ \E answer \in Answers : deployKey' = Trim(answer)
    /\ pc' = "link"
    /\ out' = out \o <<"header:Convex Deploy Key">>
    /\ UNCHANGED <<MainLocals, dirExisted, allGood, checks, inProject, written,
                   calls, exited, exitCode, convexUrl, vercelLinked, envIdx,
                   pkg, pkgText, content, readable, env>>

\* Lines 364-376, and what runs up to the next await.
Link ==
    /\ pc = "link"
    /\ \E ok \in BOOLEAN :
        /\ calls' = Append(calls, Call(VERCEL_LINK, "", "", ok))
        /\ IF ok
           THEN /\ vercelLinked' = TRUE
                /\ Go(<<"success:" \o VERCEL_LINK>>,
                      EnvPhase(TRUE, convexUrl, deployKey))
           ELSE IF InTry(VERCEL_LINK)
           THEN /\ vercelLinked' = FALSE
                /\ Go(<<"warning:" \o VERCEL_LINK>>,
                      EnvPhase(FALSE, convexUrl, deployKey))
           ELSE Throw /\ UNCHANGED vercelLinked
    /\ UNCHANGED <<MainLocals, dirExisted, allGood, checks, inProject, written,
                   convexUrl, deployKey, envIdx, pkg, pkgText, content,
                   readable, env>>

\* addVercelEnvVar (lines 80-94) after the push for environment number idx
\* ended with ok: the one try block encloses the whole loop, so the first
\* failure leaves the loop and returns false.
AddVercelEnvVarStep(idx, ok) ==
    IF ~ok
    THEN (IF InTry(VERCEL_ENV_ADD) THEN "false" ELSE "throw")
    ELSE IF idx = Len(EnvTargets) THEN "true" ELSE "continue"

Push(label, name, after) ==
    /\ pc = label
    /\ \E ok \in BOOLEAN :
        /\ calls' = Append(calls, Call(VERCEL_ENV_ADD, name, EnvTargets[envIdx], ok))
        /\ LET r == AddVercelEnvVarStep(envIdx, ok)
           IN  CASE r = "continue" ->
                      /\ envIdx' = envIdx + 1
                      /\ UNCHANGED <<pc, out, exited, exitCode>>
                 [] r = "true" ->
                      /\ envIdx' = 1
                      /\ Go(<<"success:" \o name \o " added to Vercel">>, after)
                 [] r = "false" ->
                      /\ envIdx' = 1
                      /\ Go(<<"warning:Could not add " \o name>>, after)
                 [] r = "throw" ->
                      /\ Throw
                      /\ UNCHANGED envIdx
    /\ UNCHANGED <<MainLocals, dirExisted, allGood, checks, inProject, written,
                   convexUrl, deployKey, vercelLinked, pkg, pkgText, content,
                   readable, env>>

\* Lines 383-398: one push of VITE_CONVEX_URL.
PushUrl == Push("pushUrl", "VITE_CONVEX_URL", KeyPhase(deployKey))

\* Lines 407-422: one push of CONVEX_DEPLOY_KEY.
PushKey == Push("pushKey", "CONVEX_DEPLOY_KEY", CompletePhase)

(***************************************************************************)
(* The two pure parts on their own: readEnvFile on a file, the             *)
(* package.json patch on a manifest.                                       *)
(***************************************************************************)
ReadEnvFile ==
    /\ pc = "readEnvFile"
    /\ env' = ReadEnvFileOf(readable, content)
    /\ pc' = "readEnvFileDone"
    /\ UNCHANGED <<MainLocals, dirExisted, allGood, checks, inProject, written,
                   calls, out, exited, exitCode, convexUrl, deployKey,
                   vercelLinked, envIdx, pkg, pkgText, content, readable>>

PatchManifest ==
    /\ pc = "patch"
    /\ IF HasScripts(pkg)
       THEN /\ pkg' = PatchScripts(pkg)
            /\ pkgText' = ManifestText(pkg')
            /\ written' = written \cup {"package.json"}
            /\ pc' = "patched"
       ELSE /\ pc' = "patchThrew"
            /\ UNCHANGED <<pkg, pkgText, written>>
    /\ UNCHANGED <<MainLocals, dirExisted, allGood, checks, inProject, calls, out,
                   exited, exitCode, convexUrl, deployKey, vercelLinked,
                   envIdx, content, readable, env>>

(***************************************************************************)
(* Inputs.                                                                 *)
(***************************************************************************)
EnvAlphabet == {"K", "=", "\"", "'", " ", "#", "\n"}

EnvContents == Strings(EnvAlphabet, MaxContentLen)

Injective(q) == \A i, j \in DOMAIN q : i # j => q[i] # q[j]

TopKeys == {"name", "version", "scripts"}

ScriptNames == {"dev", "dev:convex", "start", "build", "lint"}

Manifests ==
    {m \in [keys : {q \in Strings(TopKeys, Cardinality(TopKeys)) : Injective(q)},
            vals : UNION {[ks -> {"x", "y"}] : ks \in SUBSET (TopKeys \ {"scripts"})},
            scripts : {q \in Strings([k : ScriptNames, v : {"old"}], MaxScripts) :
                          Injective([i \in DOMAIN q |-> q[i].k])}] :
        /\ DOMAIN m.vals = Range(m.keys) \ {"scripts"}
        /\ (~HasScripts(m) => m.scripts = <<>>)}

NoManifest == [keys |-> <<>>, vals |-> [k \in {} |-> ""], scripts |-> <<>>]

(***************************************************************************)
(* The specifications.                                                     *)
(***************************************************************************)
InitLocals ==
    /\ skipChecks = FALSE
    /\ showHelp = FALSE
    /\ projectName = [found |-> FALSE, name |-> <<>>]
    /\ dirExisted = FALSE
    /\ allGood = TRUE
    /\ checks = <<>>
    /\ inProject = FALSE
    /\ written = {}
    /\ calls = <<>>
    /\ out = <<>>
    /\ exited = FALSE
    /\ exitCode = 0
    /\ convexUrl = <<>>
    /\ deployKey = <<>>
    /\ vercelLinked = FALSE
    /\ envIdx = 1
    /\ pkgText = <<>>
    /\ env = EmptyEnv

\* A run of the tool, before main has read its arguments.
Init ==
    /\ pc = "main"
    /\ pkg = NoManifest
    /\ content = <<>>
    /\ readable = FALSE
    /\ InitLocals

Next ==
    \/ Main
    \/ CheckBunStep
    \/ CheckGitHubStep
    \/ CheckConvexStep
    \/ CheckVercelStep
    \/ ChecksReturn
    \/ CreateProjectStart
    \/ Generate
    \/ AddNitro
    \/ Configure
    \/ Install
    \/ GitInit
    \/ GitAdd
    \/ GitCommit
    \/ GitHub
    \/ Convex
    \/ Prompt
    \/ Link
    \/ PushUrl
    \/ PushKey

Spec == Init /\ [][Next]_vars

\* readEnvFile on every file within the bound.
InitEnv ==
    /\ pc = "readEnvFile"
    /\ pkg = NoManifest
    /\ \/ readable = TRUE /\ content \in EnvContents
       \/ readable = FALSE /\ content = <<>>
    /\ InitLocals

NextEnv == ReadEnvFile

SpecEnv == InitEnv /\ [][NextEnv]_vars

\* The package.json patch on every manifest within the bound.
InitPkg ==
    /\ pc = "patch"
    /\ pkg \in Manifests
    /\ content = <<>>
    /\ readable = FALSE
    /\ InitLocals

NextPkg == PatchManifest

SpecPkg == InitPkg /\ [][NextPkg]_vars

(***************************************************************************)
(* What the properties below read off a state.                             *)
(***************************************************************************)
Failed(cmd) == \E i \in DOMAIN calls : calls[i].cmd = cmd /\ ~calls[i].ok

Succeeded(cmd) == \E i \in DOMAIN calls : calls[i].cmd = cmd /\ calls[i].ok

Printed(msg) == msg \in Range(out)

ExitedWith(code) == exited /\ exitCode = code

\* The environments for which a push of variable name was attempted.
PushedEnvs(name) ==
    {calls[i].a2 : i \in {j \in DOMAIN calls :
                            calls[j].cmd = VERCEL_ENV_ADD /\ calls[j].a1 = name}}

\* No step of createProject has run: no directory check, no command, no
\* chdir, no file written, no prompt.
NoCreateProjectStep ==
    /\ ~dirExisted
    /\ calls = <<>>
    /\ ~inProject
    /\ written = {}
    /\ ~Printed("header:Creating Project from Template")
    /\ ~Printed("header:Convex Deploy Key")
    /\ ~Printed("header:Setup Complete")

RecoverableCalls == {GH_REPO_CREATE, CONVEX_DEV_ONCE, VERCEL_LINK, VERCEL_ENV_ADD}

UncaughtCalls ==
    {CREATE_CONVEX, BUN_ADD_NITRO, BUN_INSTALL, GIT_INIT, GIT_ADD, GIT_COMMIT}

WarningFor(call) ==
    IF call.cmd = VERCEL_ENV_ADD
    THEN "warning:Could not add " \o call.a1
    ELSE "warning:" \o call.cmd

C2_EveryEnvironmentAttempted ==
    exited =>
        \A name \in {"VITE_CONVEX_URL", "CONVEX_DEPLOY_KEY"} :
            PushedEnvs(name) # {} => PushedEnvs(name) = Range(EnvTargets)

(***************************************************************************)
(* C3.  An env add for a variable is issued only after a successful link   *)
(* and with a non-empty value (for the URL: one read after a successful    *)
(* Convex init).  In a finished run: a failed link leaves no env add at    *)
(* all; a successful link with an empty value prints that variable's       *)
(* manual-entry warning and issues no env add for it, and with a non-empty *)
(* value the push of that variable starts with production.                 *)
(***************************************************************************)
C3_PushOnlyLinkedAndNonEmpty ==
    /\ \A i \in DOMAIN calls :
        calls[i].cmd = VERCEL_ENV_ADD =>
            /\ \E j \in 1..(i - 1) : calls[j].cmd = VERCEL_LINK /\ calls[j].ok
            /\ calls[i].a1 \in {"VITE_CONVEX_URL", "CONVEX_DEPLOY_KEY"}
            /\ calls[i].a1 = "VITE_CONVEX_URL" =>
                    (convexUrl # <<>> /\ Succeeded(CONVEX_DEV_ONCE))
            /\ calls[i].a1 = "CONVEX_DEPLOY_KEY" => deployKey # <<>>
    /\ (pc = "done" /\ ~Succeeded(VERCEL_LINK)) =>
            (PushedEnvs("VITE_CONVEX_URL") = {} /\ PushedEnvs("CONVEX_DEPLOY_KEY") = {})
    /\ (pc = "done" /\ Succeeded(VERCEL_LINK)) =>
            /\ IF convexUrl = <<>>
               THEN /\ Printed("warning:VITE_CONVEX_URL not found")
                    /\ PushedEnvs("VITE_CONVEX_URL") = {}
               ELSE /\ ~Printed("warning:VITE_CONVEX_URL not found")
                    /\ "production" \in PushedEnvs("VITE_CONVEX_URL")
            /\ IF deployKey = <<>>
               THEN /\ Printed("warning:No deploy key provided")
                    /\ PushedEnvs("CONVEX_DEPLOY_KEY") = {}
               ELSE /\ ~Printed("warning:No deploy key provided")
                    /\ "production" \in PushedEnvs("CONVEX_DEPLOY_KEY")

\* The scenario of the claim: linked, no URL, a deploy key pushed to all
\* three environments.
C3_Witness ==
    /\ pc = "done"
    /\ Succeeded(VERCEL_LINK)
    /\ convexUrl = <<>>
    /\ deployKey # <<>>
    /\ PushedEnvs("CONVEX_DEPLOY_KEY") = Range(EnvTargets)
    /\ PushedEnvs("VITE_CONVEX_URL") = {}
    /\ Printed("warning:VITE_CONVEX_URL not found")

(***************************************************************************)
(* C4.  When the target path exists at the start of createProject, the     *)
(* run has printed the already-exists error and exited with status 1, and  *)
(* nothing else of the pipeline has happened: no command (the generator    *)
(* included), no chdir, no file written, no prompt, no summary.            *)
(***************************************************************************)
C4_ExistingTargetStopsFirst ==
    dirExisted =>
        /\ ExitedWith(1)
        /\ out[Len(out)] = "error:already exists"
        /\ calls = <<>>
        /\ ~inProject
        /\ written = {}
        /\ pkgText = <<>>
        /\ ~Printed("header:Creating Project from Template")
        /\ ~Printed("header:Convex Deploy Key")
        /\ ~Printed("header:Setup Complete")

C4_Witness == dirExisted /\ exited /\ projectName.found

CheckOrder == <<"bun", "gh", "convex", "vercel">>

(***************************************************************************)
(* C5.  The checks run in the order bun, gh, convex, vercel; when          *)
(* checkAllPrerequisites returns, all four have run, whatever their        *)
(* results, and the value it returns is true exactly when all four are ok. *)
(***************************************************************************)
C5_AllChecksRunAndAggregate ==
    /\ Len(checks) <= Len(CheckOrder)
    /\ \A i \in DOMAIN checks : checks[i].name = CheckOrder[i]
    /\ (pc = "checksReturn" \/ Printed("error:Some prerequisites are missing")
        \/ Printed("success:All prerequisites satisfied")) =>
            /\ Len(checks) = Len(CheckOrder)
            /\ allGood <=> (\A i \in DOMAIN checks : checks[i].ok)

\* The first check failed and the last one still ran and succeeded.
C5_Witness ==
    /\ pc = "checksReturn"
    /\ Len(checks) = 4
    /\ ~checks[1].ok
    /\ checks[4].ok
    /\ ~allGood

(***************************************************************************)
(* The project-name pattern ^[a-zA-Z][a-zA-Z0-9_-]*$ read as an automaton  *)
(* over the characters of the name: state "first" before the first         *)
(* character, "rest" after a letter, "dead" after a character the pattern  *)
(* does not allow there.                                                   *)
(***************************************************************************)
RECURSIVE PatternState(_, _)
PatternState(state, name) ==
    IF name = <<>> THEN state
    ELSE PatternState(
            CASE state = "first" ->
                    (IF Head(name) \in Letters THEN "rest" ELSE "dead")
              [] state = "rest" ->
                    (IF Head(name) \in Letters \cup Digits \cup {"_", "-"}
                     THEN "rest" ELSE "dead")
              [] OTHER -> "dead",
            Tail(name))

MatchesPattern(name) == PatternState("first", name) = "rest"

\* main has exited before the checker and createProject: one message, then
\* the exit, and nothing else.
StoppedInMain(code) ==
    /\ ExitedWith(code)
    /\ Len(out) = 1
    /\ checks = <<>>
    /\ NoCreateProjectStep

\* main has gone on to the checker or to createProject.
Accepted == Printed("header:Bootstrap")

(***************************************************************************)
(* C6.  As claimed: once main has read its arguments, a candidate that     *)
(* matches the pattern has not been rejected with status 1, and a missing  *)
(* or non-matching candidate has made the run exit with status 1 with      *)
(* neither the checker nor createProject run.                              *)
(***************************************************************************)
C6_NameDecidesAlone ==
    pc # "main" =>
        IF projectName.found /\ MatchesPattern(projectName.name)
        THEN ~StoppedInMain(1)
        ELSE StoppedInMain(1)

(***************************************************************************)
(* C6, amended.  Without --help or -h: a candidate that matches the        *)
(* pattern is accepted and main goes on; a missing, empty or non-matching  *)
(* candidate makes the run exit with status 1 with neither the checker nor *)
(* createProject run.  With --help or -h the run stops in main in every    *)
(* case, with status 0 when a non-empty candidate was given (matching or   *)
(* not) and status 1 otherwise.                                            *)
(***************************************************************************)
C6_NameAndHelp ==
    pc # "main" =>
        IF showHelp
        THEN StoppedInMain(IF projectName.found /\ projectName.name # <<>>
                           THEN 0 ELSE 1)
             /\ ~Accepted
        ELSE IF projectName.found /\ MatchesPattern(projectName.name)
        THEN Accepted /\ ~(exited /\ Len(out) = 1)
        ELSE StoppedInMain(1) /\ ~Accepted

\* A candidate that starts like a name and then leaves the pattern, given
\* without a help flag, was rejected.
C6_Witness ==
    /\ ~showHelp
    /\ projectName.found
    /\ Len(projectName.name) = 2
    /\ projectName.name[1] \in Letters
    /\ ~MatchesPattern(projectName.name)
    /\ StoppedInMain(1)

\* createProject has been called, or has left a trace in the state.
CreateProjectEntered ==
    \/ pc \in {"createProject", "generate", "addNitro", "configure", "install",
               "gitInit", "gitAdd", "gitCommit", "github", "convex", "prompt",
               "link", "pushUrl", "pushKey", "done"}
    \/ ~NoCreateProjectStep

(***************************************************************************)
(* C7.  createProject is entered only with the checks skipped or with all  *)
(* four checks run and ok.  With the checks not skipped and a failed       *)
(* check, checkAllPrerequisites having returned, the run has exited with   *)
(* status 1 and no step of createProject has run.  With the checks         *)
(* skipped no check is ever run.                                           *)
(***************************************************************************)
C7_ChecksGateCreateProject ==
    /\ CreateProjectEntered =>
        \/ skipChecks
        \/ (Len(checks) = 4 /\ \A i \in DOMAIN checks : checks[i].ok)
    /\ (~skipChecks /\ Len(checks) = 4 /\ pc # "checksReturn"
        /\ \E i \in DOMAIN checks : ~checks[i].ok) =>
            (ExitedWith(1) /\ NoCreateProjectStep)
    /\ skipChecks => checks = <<>>

\* Checks not skipped, the third check failed: exit 1, createProject not run.
C7_Witness ==
    /\ ~skipChecks
    /\ Len(checks) = 4
    /\ ~checks[3].ok
    /\ ExitedWith(1)
    /\ ~CreateProjectEntered

(***************************************************************************)
(* C8.  As claimed: every key of the map readEnvFile returns is non-empty  *)
(* and holds no "=".                                                       *)
(***************************************************************************)
C8_KeysNonEmptyWithoutEq ==
    pc = "readEnvFileDone" =>
        \A k \in DOMAIN env : k # <<>> /\ "=" \notin Range(k)

\* What does hold of the keys: no "=", no blank at either end.
KeysWithoutEqTrimmed ==
    pc = "readEnvFileDone" =>
        \A k \in DOMAIN env : "=" \notin Range(k) /\ Trim(k) = k

(***************************************************************************)
(* C9.  The map the claim describes, line by line.                         *)
(***************************************************************************)
Contributes(line) ==
    /\ Trim(line) # <<>>
    /\ Trim(line)[1] # "#"
    /\ "=" \in Range(line)

FirstEq(t) == CHOOSE i \in DOMAIN t : t[i] = "=" /\ \A j \in 1..(i - 1) : t[j] # "="

KeyOfLine(line) == Trim(SubSeq(Trim(line), 1, FirstEq(Trim(line)) - 1))

RawValueOfLine(line) ==
    Trim(SubSeq(Trim(line), FirstEq(Trim(line)) + 1, Len(Trim(line))))

\* A value that starts and ends with the same quote character, as a pair.
QuotedPair(v) == Len(v) >= 2 /\ v[1] = v[Len(v)] /\ v[1] \in {"\"", "'"}

\* The same, or a value that is one quote character alone.
QuotedPairOrLoneQuote(v) == Len(v) >= 1 /\ v[1] = v[Len(v)] /\ v[1] \in {"\"", "'"}

Unquoted(v) == [i \in 1..(Len(v) - 2) |-> v[i + 1]]

\* The lines of a text: the pieces between its line feeds.
LineStarts(text) == {1} \cup {i + 1 : i \in {j \in DOMAIN text : text[j] = "\n"}}

LineAt(text, start) ==
    LET ends == {j \in start..Len(text) : text[j] = "\n"}
        stop == IF ends = {} THEN Len(text) + 1
                ELSE CHOOSE j \in ends : \A k \in ends : j <= k
    IN  [i \in 1..(stop - start) |-> text[start + i - 1]]

\* The map: for each key of a contributing line, the value of the last
\* contributing line with that key, unquoted when it is a quoted pair (or,
\* with loneQuoteToo, one quote character alone).
DescribedEnv(text, loneQuoteToo) ==
    LET starts == {p \in LineStarts(text) : Contributes(LineAt(text, p))}
        keys == {KeyOfLine(LineAt(text, p)) : p \in starts}
        lastOf(k) == CHOOSE p \in starts :
                        /\ KeyOfLine(LineAt(text, p)) = k
                        /\ \A q \in starts :
                              KeyOfLine(LineAt(text, q)) = k => q <= p
        valueAt(p) == LET raw == RawValueOfLine(LineAt(text, p))
                      IN  IF \/ QuotedPair(raw)
                             \/ (loneQuoteToo /\ QuotedPairOrLoneQuote(raw))
                          THEN Unquoted(raw) ELSE raw
    IN  [k \in keys |-> valueAt(lastOf(k))]

(***************************************************************************)
(* C9.  As claimed: readEnvFile returns the map described above, quotes    *)
(* removed only from a value that starts and ends with the same quote      *)
(* character as a pair; an unreadable file gives the empty map.            *)
(***************************************************************************)
C9_ParsesAsDescribed ==
    pc = "readEnvFileDone" =>
        env = IF readable THEN DescribedEnv(content, FALSE) ELSE EmptyEnv

\* What does hold: the same map, except that a value that is one quote
\* character alone is also unquoted, to the empty string.
ParsesAsDescribedButLoneQuote ==
    pc = "readEnvFileDone" =>
        env = IF readable THEN DescribedEnv(content, TRUE)
              ELSE EmptyEnv

(***************************************************************************)
(* C10.  As claimed: after the patch of a manifest with a scripts section, *)
(* the section holds exactly four keys, dev, dev:convex and start among    *)
(* them with their fixed values.                                           *)
(***************************************************************************)
C10_ExactlyFourScripts ==
    pc = "patched" =>
        /\ Cardinality(ScriptKeys(pkg.scripts)) = 4
        /\ {"dev", "dev:convex", "start"} \subseteq ScriptKeys(pkg.scripts)
        /\ ScriptValue(pkg.scripts, "dev") = DEV_SCRIPT
        /\ ScriptValue(pkg.scripts, "dev:convex") = DEV_CONVEX_SCRIPT
        /\ ScriptValue(pkg.scripts, "start") = START_SCRIPT

(***************************************************************************)
(* C10, amended.  The patch of a manifest with a scripts section sets the  *)
(* three keys dev, dev:convex and start to their fixed values and leaves   *)
(* every other entry of the section as it was, so the section holds these  *)
(* three keys and the other keys it had; the top-level keys, their order   *)
(* and every other top-level value are unchanged; the text written is the  *)
(* serialisation of the patched manifest and ends in exactly one line      *)
(* feed.                                                                   *)
(***************************************************************************)
C10_PatchSetsThreeKeepsRest ==
    [][(pc = "patch" /\ HasScripts(pkg)) =>
        /\ pc' = "patched"
        /\ ScriptKeys(pkg'.scripts)
              = ScriptKeys(pkg.scripts) \cup {"dev", "dev:convex", "start"}
        /\ Len(pkg'.scripts) = Cardinality(ScriptKeys(pkg'.scripts))
        /\ ScriptValue(pkg'.scripts, "dev") = DEV_SCRIPT
        /\ ScriptValue(pkg'.scripts, "dev:convex") = DEV_CONVEX_SCRIPT
        /\ ScriptValue(pkg'.scripts, "start") = START_SCRIPT
        /\ \A k \in ScriptKeys(pkg.scripts) \ {"dev", "dev:convex", "start"} :
              ScriptValue(pkg'.scripts, k) = ScriptValue(pkg.scripts, k)
        /\ pkg'.keys = pkg.keys
        /\ pkg'.vals = pkg.vals
        /\ Len(pkgText') >= 2
        /\ pkgText'[Len(pkgText')] = "\n"
        /\ pkgText'[Len(pkgText') - 1] = "}"
        /\ \A k \in ScriptKeys(pkg'.scripts) : k \in Range(pkgText')
        /\ \A k \in Range(pkg.keys) : k \in Range(pkgText')
      ]_vars

\* A patched manifest that had another script and another top-level field.
C10_Witness ==
    /\ pc = "patched"
    /\ "build" \in ScriptKeys(pkg.scripts)
    /\ "name" \in Range(pkg.keys)
    /\ Cardinality(ScriptKeys(pkg.scripts)) = 5

====
